---- MODULE Spec2Model ----
(***************************************************************************)
(* Model of the cluster command of sawtooth/cli/cluster.py:                *)
(* do_cluster_start, do_cluster_stop and do_cluster_status, the persisted  *)
(* state document ~/.sawtooth/cluster/state.yaml they read and write, and  *)
(* the node driver they talk to through ValidatorNetworkManager and        *)
(* SimpleNodeCommandGenerator.                                             *)
(*                                                                         *)
(* One command runs at a time (run to completion); pc is the position of   *)
(* the running command in its function body.                               *)
(***************************************************************************)
EXTENDS Integers, Sequences, FiniteSets, TLC

\* ------------------------------------------------------------------ bounds
\* The largest --count given to start; node names validator-000 ..
\* validator-(MaxCount-1) form the universe of node names.
MaxCount == 2

\* The longest explicit NODE_NAME list given to stop and status.
MaxNames == 2

\* --------------------------------------------------------------- constants
\* http_port=8800 and gossip_port=5500 of node_command_generator.start.
HTTP_PORT == 8800
GOSSIP_PORT == 5500

\* Python None (args.manage not given, or a YAML null).
None == "None"

\* A key a dict does not hold.
NoKey == "<no key>"

VARIABLES
    state_file,      \* state.yaml: <<>> when there is no file, else <<document>>
    known,           \* driver: the node names vnm.get_node_names() returns
    running,         \* driver: the node names vnm.is_running() is True for
    pc,              \* position of the running command
    args,            \* the argparse namespace of the running command
    state,           \* the local dict `state` of do_cluster_start / do_cluster_stop
    controller,      \* the node controller class instantiated
    existing_nodes,  \* the local existing_nodes of do_cluster_start
    node_names,      \* the local node_names of do_cluster_stop / do_cluster_status
    i,               \* the loop position
    trace,           \* calls the running command has made, in order
    result,          \* how the running command ended
    prev             \* summary of the command that ran before this one

vars == <<state_file, known, running, pc, args, state, controller,
          existing_nodes, node_names, i, trace, result, prev>>

\* ------------------------------------------------------------- node names
DigitChar(d) == <<"0", "1", "2", "3", "4", "5", "6", "7", "8", "9">>[d + 1]

RECURSIVE Digits(_)
\* str(n) for n >= 0, as a sequence of characters.
Digits(n) ==
    IF n < 10 THEN <<DigitChar(n)>>
    ELSE Append(Digits(n \div 10), DigitChar(n % 10))

RECURSIVE PadLeft(_, _, _)
\* The format spec {:fill>width}: right-align in width, never truncate.
PadLeft(s, width, fill) ==
    IF Len(s) >= width THEN s ELSE PadLeft(<<fill>> \o s, width, fill)

\* "validator-{:0>3}".format(i)
NodeName(n) == <<"validator-">> \o PadLeft(Digits(n), 3, "0")

Ordinals == 0 .. (MaxCount - 1)

Names == {NodeName(n) : n \in Ordinals}

\* The values of --count.
Counts == 1 .. MaxCount

\* The values of args.manage: the two choices of --manage, or None.
ManageArgs == {None, "docker", "daemon"}

\* The explicit NODE_NAME lists: distinct names, at most MaxNames of them.
NameLists ==
    {s \in UNION {[1 .. k -> Names] : k \in 0 .. MaxNames} :
        \A a, b \in 1 .. Len(s) : a # b => s[a] # s[b]}

\* ------------------------------------------------- the state document
\* state["Nodes"] = {}
EmptyNodes == [n \in {} |-> [Status |-> "Running", Index |-> 0]]

\* state["Nodes"][node_name] = {"Status": "Running", "Index": i}
PutNode(nodes, node_name, n) ==
    [m \in DOMAIN nodes \cup {node_name} |->
        IF m = node_name THEN [Status |-> "Running", Index |-> n] ELSE nodes[m]]

\* The Nodes mapping a start of count k writes into an empty mapping.
NodesUpTo(k) ==
    [m \in {NodeName(n) : n \in 0 .. (k - 1)} |->
        [Status |-> "Running",
         Index |-> CHOOSE n \in 0 .. (k - 1) : NodeName(n) = m]]

\* The documents a state.yaml may hold when a command begins: the ones this
\* program writes, the same with State Stopped, and older documents that
\* have no Manage key.
Documents ==
    [State : {"Running", "Stopped"},
     Manage : {"docker", "daemon", NoKey},
     Nodes : {NodesUpTo(k) : k \in 0 .. MaxCount}]

\* The dict built when state.yaml cannot be opened. It has no Nodes key; the
\* State is Stopped, so the next statement sets Nodes before any use.
FreshState == [State |-> "Stopped", Manage |-> NoKey, Nodes |-> EmptyNodes]

NoState == [State |-> "", Manage |-> NoKey, Nodes |-> EmptyNodes]

\* try: state = yaml.load(state_file) except IOError: state = {"State": "Stopped"}
LoadOrInit(file) == IF file = <<>> THEN FreshState ELSE file[1]

\* ClearIfStopped that clears the mapping whatever the State.
ClearAlways(s) == [s EXCEPT !.Nodes = EmptyNodes]

\* if state["State"] == "Stopped": state["Nodes"] = {}
ClearIfStopped(s) ==
    IF s.State = "Stopped" THEN [s EXCEPT !.Nodes = EmptyNodes] ELSE s

\* ManageConflict with the comparison of State inverted.
ManageConflictWhenStopped(s, manage) ==
    /\ s.Manage # NoKey
    /\ manage # None
    /\ s.Manage # manage
    /\ s.State # "Running"

\* The elif condition under which start raises 'Cannot use two different
\* Manage types'.
ManageConflict(s, manage) ==
    /\ s.Manage # NoKey
    /\ manage # None
    /\ s.Manage # manage
    /\ s.State = "Running"

\* ResolveManage that takes the requested backend whenever one is given.
ResolveManageRequested(s, manage) ==
    IF manage # None THEN [s EXCEPT !.Manage = manage]
    ELSE IF s.Manage = NoKey THEN [s EXCEPT !.Manage = "docker"]
    ELSE s

\* if "Manage" not in state: state['Manage'] = args.manage if args.manage is
\* not None else 'docker'
ResolveManage(s, manage) ==
    IF s.Manage = NoKey
    THEN [s EXCEPT !.Manage = IF manage # None THEN manage ELSE "docker"]
    ELSE s

\* The controller start instantiates for state["Manage"].
StartController(manage) ==
    IF manage = "docker" THEN "DockerNodeController"
    ELSE IF manage = "daemon" THEN "DaemonNodeController"
    ELSE "invalid"

\* The controller stop instantiates for state['Manage']; the subscript raises
\* KeyError when the document has no Manage key.
StopController(s) ==
    IF s.Manage = NoKey THEN "KeyError"
    ELSE IF s.Manage = None \/ s.Manage = "docker" THEN "DockerNodeController"
    ELSE IF s.Manage = "daemon" THEN "DaemonNodeController"
    ELSE "invalid"

\* The controller status instantiates for args.manage.
StatusController(manage) ==
    IF manage = None \/ manage = "docker" THEN "DockerNodeController"
    ELSE IF manage = "daemon" THEN "DaemonNodeController"
    ELSE "invalid"

\* Genesis with the flag set for every node.
GenesisAlways(n) == n >= 0

\* genesis is true for the first node
Genesis(n) == n = 0

\* AlreadyRunning with the running test negated.
AlreadyRunningNegated(in_existing, is_running) == in_existing /\ ~is_running

\* AlreadyRunning that never skips a node.
AlreadyRunningNever(in_existing, is_running) == FALSE

\* AlreadyRunning without the is_running test.
AlreadyRunningKnownOnly(in_existing, is_running) == in_existing

\* node_name in existing_nodes and vnm.is_running(node_name)
AlreadyRunning(in_existing, is_running) == in_existing /\ is_running

\* ------------------------------------------------------------ the driver
RECURSIVE ListFrom(_, _)
\* The names of S as a list, by ordinal.
ListFrom(S, n) ==
    IF n >= MaxCount THEN <<>>
    ELSE (IF NodeName(n) \in S THEN <<NodeName(n)>> ELSE <<>>) \o ListFrom(S, n + 1)

\* vnm.get_node_names()
GetNodeNames == ListFrom(known, 0)

\* ResolveNodeNames falling back to the keys of the persisted Nodes mapping.
ResolveNodeNamesFromRecord(arg_names, live_names) ==
    IF Len(arg_names) > 0 THEN arg_names
    ELSE IF state_file = <<>> THEN <<>>
    ELSE ListFrom(DOMAIN state_file[1].Nodes, 0)

\* if len(args.node_names) > 0: node_names = args.node_names
\* else: node_names = vnm.get_node_names()
ResolveNodeNames(arg_names, live_names) ==
    IF Len(arg_names) > 0 THEN arg_names ELSE live_names

Range(s) == {s[k] : k \in 1 .. Len(s)}

\* ------------------------------------------------------- command results
NoArgs == [cmd |-> "none", count |-> 0, manage |-> None, node_names |-> <<>>]

NoResult == [status |-> "none", msg |-> ""]
Ok == [status |-> "ok", msg |-> ""]
\* raise CliException(msg): the user-facing error of the command line.
CliException(msg) == [status |-> "CliException", msg |-> msg]
\* An exception do_cluster_* does not catch.
Uncaught(kind) == [status |-> kind, msg |-> ""]

\* What a command can know of the one before it: a start that succeeded
\* ("start_ok") or was killed ("start_killed") with its count, a stop of all
\* nodes that succeeded right after a successful start ("stop_all_ok", with
\* that start's count), or anything else.
NoPrev == [kind |-> "other", count |-> 0]

Init ==
    /\ state_file \in {<<>>} \cup {<<d>> : d \in Documents}
    /\ known \in SUBSET Names
    /\ running \in SUBSET known
    /\ pc = "idle"
    /\ args = NoArgs
    /\ state = NoState
    /\ controller = "none"
    /\ existing_nodes = {}
    /\ node_names = <<>>
    /\ i = 0
    /\ trace = <<>>
    /\ result = NoResult
    /\ prev = NoPrev

\* The command ends: locals are dropped. Nothing of the file or driver changes.
Finish(r) ==
    /\ pc' = "done"
    /\ result' = r

Locals == <<state, controller, existing_nodes, node_names, i>>
World == <<state_file, known, running>>

\* ------------------------------------------------------ do_cluster_start
\* Lines 101-139: load the document, resolve Nodes, Manage and State, build
\* the controller, the command generator and the network manager.
StartBegin(count, manage) ==
    /\ pc = "idle"
    /\ args' = [cmd |-> "start", count |-> count, manage |-> manage,
                node_names |-> <<>>]
    /\ trace' = <<>>
    /\ LET cleared == ClearIfStopped(LoadOrInit(state_file))
           resolved == [ResolveManage(cleared, manage) EXCEPT !.State = "Running"]
       IN IF ManageConflict(cleared, manage)
          THEN /\ Finish(CliException("Cannot use two different Manage types"))
               /\ UNCHANGED <<state, controller>>
          ELSE IF StartController(resolved.Manage) = "invalid"
          THEN /\ Finish(CliException("invalid management type"))
               /\ UNCHANGED <<state, controller>>
          ELSE /\ pc' = "start_list"
               /\ state' = resolved
               /\ controller' = StartController(resolved.Manage)
               /\ UNCHANGED result
    /\ UNCHANGED <<World, existing_nodes, node_names, i, prev>>

\* Lines 141-142: existing_nodes = vnm.get_node_names()
StartList ==
    /\ pc = "start_list"
    /\ existing_nodes' = known
    /\ trace' = Append(trace, [op |-> "get_node_names"])
    /\ i' = 0
    /\ pc' = "start_loop"
    /\ UNCHANGED <<World, args, state, controller, node_names, result, prev>>

\* StartListFails with the document already written when the listing fails.
StartListFailsAfterSave ==
    /\ pc = "start_list"
    /\ trace' = Append(trace, [op |-> "get_node_names"])
    /\ state_file' = <<state>>
    /\ Finish(CliException("ManagementError"))
    /\ UNCHANGED <<known, running, args, Locals, prev>>

\* Lines 143-144: except ManagementError as e: raise CliException(str(e))
StartListFails ==
    /\ pc = "start_list"
    /\ trace' = Append(trace, [op |-> "get_node_names"])
    /\ Finish(CliException("ManagementError"))
    /\ UNCHANGED <<World, args, Locals, prev>>

\* The events of one evaluation of the condition of line 149: is_running is
\* called only for a name in existing_nodes.
CheckEvents(node_name) ==
    IF node_name \in existing_nodes
    THEN <<[op |-> "is_running", name |-> node_name,
            value |-> IF node_name \in running THEN "True" ELSE "False"]>>
    ELSE <<>>

\* Lines 146-151: the node is already running: print and continue.
StartLoopSkip ==
    /\ pc = "start_loop"
    /\ i < args.count
    /\ AlreadyRunning(NodeName(i) \in existing_nodes, NodeName(i) \in running)
    /\ trace' = trace \o CheckEvents(NodeName(i))
    /\ i' = i + 1
    /\ UNCHANGED <<World, pc, args, state, controller, existing_nodes,
                   node_names, result, prev>>

\* StartLoopIssue walking the ordinals from count-1 down to 0.
StartLoopIssueDescending ==
    LET n == args.count - 1 - i
    IN /\ pc = "start_loop"
       /\ i < args.count
       /\ trace' = trace \o
                   <<[op |-> "start", name |-> NodeName(n),
                      http_port |-> HTTP_PORT, gossip_port |-> GOSSIP_PORT,
                      genesis |-> Genesis(n)]>>
       /\ known' = known \cup {NodeName(n)}
       /\ running' = running \cup {NodeName(n)}
       /\ state' = [state EXCEPT !.Nodes = PutNode(state.Nodes, NodeName(n), n)]
       /\ i' = i + 1
       /\ UNCHANGED <<state_file, pc, args, controller, existing_nodes,
                      node_names, result, prev>>

\* Lines 146-163: the node is started and recorded.
StartLoopIssue ==
    /\ pc = "start_loop"
    /\ i < args.count
    /\ ~AlreadyRunning(NodeName(i) \in existing_nodes, NodeName(i) \in running)
    /\ trace' = trace \o CheckEvents(NodeName(i)) \o
                <<[op |-> "start", name |-> NodeName(i),
                   http_port |-> HTTP_PORT, gossip_port |-> GOSSIP_PORT,
                   genesis |-> Genesis(i)]>>
    /\ known' = known \cup {NodeName(i)}
    /\ running' = running \cup {NodeName(i)}
    /\ state' = [state EXCEPT !.Nodes = PutNode(state.Nodes, NodeName(i), i)]
    /\ i' = i + 1
    /\ UNCHANGED <<state_file, pc, args, controller, existing_nodes,
                   node_names, result, prev>>

\* Line 149: vnm.is_running raises; nothing in do_cluster_start catches it.
StartIsRunningFails ==
    /\ pc = "start_loop"
    /\ i < args.count
    /\ NodeName(i) \in existing_nodes
    /\ trace' = Append(trace, [op |-> "is_running", name |-> NodeName(i),
                               value |-> "raise"])
    /\ Finish(Uncaught("ManagementError"))
    /\ UNCHANGED <<World, args, Locals, prev>>

\* Lines 157-161: node_command_generator.start raises; nothing catches it.
StartIssueFails ==
    /\ pc = "start_loop"
    /\ i < args.count
    /\ ~AlreadyRunning(NodeName(i) \in existing_nodes, NodeName(i) \in running)
    /\ trace' = trace \o CheckEvents(NodeName(i)) \o
                <<[op |-> "start_raise", name |-> NodeName(i)]>>
    /\ Finish(Uncaught("ManagementError"))
    /\ UNCHANGED <<World, args, Locals, prev>>

\* StartSave that goes on to the settle step without writing the document.
StartSaveSkipped ==
    /\ pc = "start_loop"
    /\ i = args.count
    /\ pc' = "start_update"
    /\ UNCHANGED <<World, args, Locals, trace, result, prev>>

\* Lines 165-167: yaml.dump(state, state_file)
StartSave ==
    /\ pc = "start_loop"
    /\ i = args.count
    /\ state_file' = <<state>>
    /\ trace' = Append(trace, [op |-> "save"])
    /\ pc' = "start_update"
    /\ UNCHANGED <<known, running, args, Locals, result, prev>>

\* Lines 169-170: vnm.update()
StartUpdate ==
    /\ pc = "start_update"
    /\ trace' = Append(trace, [op |-> "update"])
    /\ Finish(Ok)
    /\ UNCHANGED <<World, args, Locals, prev>>

\* Lines 171-172: except ManagementError as e: raise CliException(str(e))
StartUpdateFails ==
    /\ pc = "start_update"
    /\ trace' = Append(trace, [op |-> "update"])
    /\ Finish(CliException("ManagementError"))
    /\ UNCHANGED <<World, args, Locals, prev>>

\* ------------------------------------------------------- do_cluster_stop
\* StopOpen falling back to a fresh dict, as start does, when there is no file.
StopOpenOrInit(file) == [err |-> "", state |-> LoadOrInit(file)]

\* Lines 180-185: read the document; IOError becomes CliException.
StopOpen(file) ==
    IF file = <<>> THEN [err |-> "IOError", state |-> NoState]
    ELSE [err |-> "", state |-> file[1]]

\* Lines 177-199: read the document, build the controller for
\* state['Manage'], the command generator and the manager.
StopBegin(names) ==
    /\ pc = "idle"
    /\ args' = [cmd |-> "stop", count |-> 0, manage |-> None,
                node_names |-> names]
    /\ trace' = <<>>
    /\ LET opened == StopOpen(state_file)
       IN IF opened.err # ""
          THEN /\ Finish(CliException(opened.err))
               /\ UNCHANGED <<state, controller>>
          ELSE IF StopController(opened.state) = "KeyError"
          THEN /\ Finish(Uncaught("KeyError"))
               /\ UNCHANGED <<state, controller>>
          ELSE IF StopController(opened.state) = "invalid"
          THEN /\ Finish(CliException("invalid management type"))
               /\ UNCHANGED <<state, controller>>
          ELSE /\ pc' = "stop_resolve"
               /\ state' = opened.state
               /\ controller' = StopController(opened.state)
               /\ UNCHANGED result
    /\ prev' = IF Len(names) = 0 /\ prev.kind = "start_ok" THEN prev ELSE NoPrev
    /\ UNCHANGED <<World, existing_nodes, node_names, i>>

\* The events of resolving the target names: the driver is asked only when
\* no name was given.
ResolveEvents == IF Len(args.node_names) > 0 THEN <<>> ELSE <<[op |-> "get_node_names"]>>

\* Lines 201-204: resolve the target names.
StopResolve ==
    /\ pc = "stop_resolve"
    /\ node_names' = ResolveNodeNames(args.node_names, GetNodeNames)
    /\ trace' = trace \o ResolveEvents
    /\ i' = 0
    /\ pc' = "stop_loop"
    /\ UNCHANGED <<World, args, state, controller, existing_nodes, result, prev>>

\* Line 204: vnm.get_node_names() raises; do_cluster_stop does not catch it.
StopResolveFails ==
    /\ pc = "stop_resolve"
    /\ Len(args.node_names) = 0
    /\ trace' = trace \o ResolveEvents
    /\ Finish(Uncaught("ManagementError"))
    /\ UNCHANGED <<World, args, Locals, prev>>

\* Lines 206-208: node_command_generator.stop(node_name)
StopLoopIssue ==
    /\ pc = "stop_loop"
    /\ i < Len(node_names)
    /\ trace' = Append(trace, [op |-> "stop", name |-> node_names[i + 1]])
    /\ running' = running \ {node_names[i + 1]}
    /\ i' = i + 1
    /\ UNCHANGED <<state_file, known, pc, args, state, controller,
                   existing_nodes, node_names, result, prev>>

\* Line 208: the stop action raises; the loop has no try, so the exception
\* leaves do_cluster_stop.
StopIssueFails ==
    /\ pc = "stop_loop"
    /\ i < Len(node_names)
    /\ trace' = Append(trace, [op |-> "stop_raise", name |-> node_names[i + 1]])
    /\ Finish(Uncaught("ManagementError"))
    /\ UNCHANGED <<World, args, Locals, prev>>

\* StopUpdate that records State Stopped in the document after the settle step.
StopUpdateRecordsStopped ==
    /\ pc = "stop_loop"
    /\ i = Len(node_names)
    /\ trace' = Append(trace, [op |-> "update"])
    /\ state_file' = <<[state EXCEPT !.State = "Stopped"]>>
    /\ Finish(Ok)
    /\ UNCHANGED <<known, running, args, Locals, prev>>

\* Line 210: vnm.update(); the function returns without writing state.yaml.
StopUpdate ==
    /\ pc = "stop_loop"
    /\ i = Len(node_names)
    /\ trace' = Append(trace, [op |-> "update"])
    /\ Finish(Ok)
    /\ UNCHANGED <<World, args, Locals, prev>>

\* Line 210: vnm.update() raises; do_cluster_stop does not catch it.
StopUpdateFails ==
    /\ pc = "stop_loop"
    /\ i = Len(node_names)
    /\ trace' = Append(trace, [op |-> "update"])
    /\ Finish(Uncaught("ManagementError"))
    /\ UNCHANGED <<World, args, Locals, prev>>

\* ----------------------------------------------------- do_cluster_status
\* Lines 215-226: build the controller for args.manage; no file is read.
StatusBegin(names, manage) ==
    /\ pc = "idle"
    /\ args' = [cmd |-> "status", count |-> 0, manage |-> manage,
                node_names |-> names]
    /\ trace' = <<>>
    /\ IF StatusController(manage) = "invalid"
       THEN /\ Finish(CliException("invalid management type"))
            /\ UNCHANGED controller
       ELSE /\ pc' = "status_resolve"
            /\ controller' = StatusController(manage)
            /\ UNCHANGED result
    /\ prev' = NoPrev
    /\ UNCHANGED <<World, state, existing_nodes, node_names, i>>

\* Lines 228-231: resolve the target names.
StatusResolve ==
    /\ pc = "status_resolve"
    /\ node_names' = ResolveNodeNames(args.node_names, GetNodeNames)
    /\ trace' = trace \o ResolveEvents
    /\ i' = 0
    /\ pc' = "status_loop"
    /\ UNCHANGED <<World, args, state, controller, existing_nodes, result, prev>>

\* Line 231: vnm.get_node_names() raises; do_cluster_status does not catch it.
StatusResolveFails ==
    /\ pc = "status_resolve"
    /\ Len(args.node_names) = 0
    /\ trace' = trace \o ResolveEvents
    /\ Finish(Uncaught("ManagementError"))
    /\ UNCHANGED <<World, args, Locals, prev>>

\* vnm.status(node_name) of a node the driver answers for.
NodeStatus(node_name) ==
    IF node_name \in running THEN "RUNNING"
    ELSE IF node_name \in known THEN "STOPPED"
    ELSE "UNKNOWN"

\* Lines 233-234: print node_name, vnm.status(node_name)
StatusLoopQuery ==
    /\ pc = "status_loop"
    /\ i < Len(node_names)
    /\ trace' = Append(trace, [op |-> "status", name |-> node_names[i + 1],
                               value |-> NodeStatus(node_names[i + 1])])
    /\ i' = i + 1
    /\ UNCHANGED <<World, pc, args, state, controller, existing_nodes,
                   node_names, result, prev>>

\* Line 234: vnm.status raises; the loop has no try.
StatusQueryFails ==
    /\ pc = "status_loop"
    /\ i < Len(node_names)
    /\ trace' = Append(trace, [op |-> "status", name |-> node_names[i + 1],
                               value |-> "raise"])
    /\ Finish(Uncaught("ManagementError"))
    /\ UNCHANGED <<World, args, Locals, prev>>

\* StatusReturn that writes the state document before returning.
StatusReturnSaving ==
    /\ pc = "status_loop"
    /\ i = Len(node_names)
    /\ state_file' = <<[State |-> "Running", Manage |-> "docker",
                        Nodes |-> EmptyNodes]>>
    /\ Finish(Ok)
    /\ UNCHANGED <<known, running, args, Locals, trace, prev>>

\* The loop is over and do_cluster_status returns.
StatusReturn ==
    /\ pc = "status_loop"
    /\ i = Len(node_names)
    /\ Finish(Ok)
    /\ UNCHANGED <<World, args, Locals, trace, prev>>

\* ------------------------------------------------------------ the process
\* What the next command can know of this one, ending with status st.
Summary(st) ==
    IF args.cmd = "start" /\ st = "ok"
    THEN [kind |-> "start_ok", count |-> args.count]
    ELSE IF args.cmd = "start" /\ st = "killed"
    THEN [kind |-> "start_killed", count |-> args.count]
    ELSE IF /\ args.cmd = "stop" /\ st = "ok"
            /\ Len(args.node_names) = 0 /\ prev.kind = "start_ok"
    THEN [kind |-> "stop_all_ok", count |-> prev.count]
    ELSE NoPrev

\* The process ends: its locals are lost, the file and the driver keep what
\* was done.
ProcessEnds(st) ==
    /\ pc' = "idle"
    /\ prev' = Summary(st)
    /\ args' = NoArgs
    /\ state' = NoState
    /\ controller' = "none"
    /\ existing_nodes' = {}
    /\ node_names' = <<>>
    /\ i' = 0
    /\ trace' = <<>>
    /\ result' = NoResult
    /\ UNCHANGED World

\* The process is killed in the middle of a command.
Kill ==
    /\ pc \notin {"idle", "done"}
    /\ ProcessEnds("killed")

\* do_cluster returns (or the exception leaves it) and the process exits.
Exit ==
    /\ pc = "done"
    /\ ProcessEnds(result.status)

\* Between two commands a node process ends on its own.
NodeExits(node_name) ==
    /\ pc = "idle"
    /\ node_name \in running
    /\ running' = running \ {node_name}
    /\ UNCHANGED <<state_file, known, pc, args, Locals, trace, result, prev>>

\* Between two commands an operator removes a node by hand.
NodeRemoved(node_name) ==
    /\ pc = "idle"
    /\ node_name \in known
    /\ known' = known \ {node_name}
    /\ running' = running \ {node_name}
    /\ UNCHANGED <<state_file, pc, args, Locals, trace, result, prev>>

\* do_cluster dispatches on args.cluster_command.
Next ==
    \/ \E count \in Counts, manage \in ManageArgs : StartBegin(count, manage)
    \/ StartList
    \/ StartListFails
    \/ StartLoopSkip
    \/ StartLoopIssue
    \/ StartIsRunningFails
    \/ StartIssueFails
    \/ StartSave
    \/ StartUpdate
    \/ StartUpdateFails
    \/ \E names \in NameLists : StopBegin(names)
    \/ StopResolve
    \/ StopResolveFails
    \/ StopLoopIssue
    \/ StopIssueFails
    \/ StopUpdate
    \/ StopUpdateFails
    \/ \E names \in NameLists, manage \in ManageArgs : StatusBegin(names, manage)
    \/ StatusResolve
    \/ StatusResolveFails
    \/ StatusLoopQuery
    \/ StatusQueryFails
    \/ StatusReturn
    \/ Kill
    \/ Exit
    \/ \E node_name \in Names : NodeExits(node_name)
    \/ \E node_name \in Names : NodeRemoved(node_name)

Spec == Init /\ [][Next]_vars

\* ------------------------------------------------------------ properties
\* The names of the start actions the running command has issued.
StartedNames ==
    {trace[k].name : k \in {j \in 1 .. Len(trace) : trace[j].op = "start"}}

\* The driver answered True to is_running(node_name) in the running command.
ReportedRunning(node_name) ==
    \E k \in 1 .. Len(trace) :
        /\ trace[k].op = "is_running"
        /\ trace[k].name = node_name
        /\ trace[k].value = "True"

\* The driver reported node_name as known and as running.
KnownAndRunning(node_name) ==
    node_name \in existing_nodes /\ ReportedRunning(node_name)

IsTargetOp(e) == e.op \in {"stop", "stop_raise", "status"}

\* The names stop or status has acted on (or tried to), in order.
ActedNames ==
    LET targets == SelectSeq(trace, IsTargetOp)
    IN [k \in 1 .. Len(targets) |-> targets[k].name]

\* C1: Idempotent start. When the command before was a successful
\* start(count) and, in this start(count), the driver reports every node
\* validator-000 .. validator-(count-1) as known and running, this start
\* issues no start action.
C1_IdempotentStart ==
    (/\ args.cmd = "start"
     /\ prev.kind = "start_ok"
     /\ prev.count = args.count
     /\ \A n \in 0 .. (args.count - 1) : KnownAndRunning(NodeName(n)))
    => StartedNames = {}

\* A second start of the same count, of at least two nodes, has completed
\* with every node reported running and nothing started.
C1_Witness ==
    /\ pc = "done"
    /\ result = Ok
    /\ args.cmd = "start"
    /\ args.count >= 2
    /\ prev.kind = "start_ok"
    /\ prev.count = args.count
    /\ \A n \in 0 .. (args.count - 1) : KnownAndRunning(NodeName(n))
    /\ StartedNames = {}

\* C2: Monotonic growth. When start(n) follows a successful start(m), m < n,
\* and the driver reports every node of ordinal 0 .. m-1 as known and
\* running, start(n) issues start actions only for ordinals m .. n-1 and
\* none for an ordinal 0 .. m-1.
C2_MonotonicGrowth ==
    (/\ args.cmd = "start"
     /\ prev.kind = "start_ok"
     /\ prev.count < args.count
     /\ \A n \in 0 .. (prev.count - 1) : KnownAndRunning(NodeName(n)))
    => /\ StartedNames \subseteq
            {NodeName(n) : n \in prev.count .. (args.count - 1)}
       /\ \A n \in 0 .. (prev.count - 1) : NodeName(n) \notin StartedNames

\* A larger start after a successful smaller one has completed, and has
\* started exactly the new ordinals.
C2_Witness ==
    /\ pc = "done"
    /\ result = Ok
    /\ args.cmd = "start"
    /\ prev.kind = "start_ok"
    /\ prev.count < args.count
    /\ \A n \in 0 .. (prev.count - 1) : KnownAndRunning(NodeName(n))
    /\ StartedNames = {NodeName(n) : n \in prev.count .. (args.count - 1)}

\* C3: Genesis invariant. Every start action ever issued carries
\* genesis=true if and only if it is the action for ordinal 0.
C3_GenesisOnlyOrdinalZero ==
    \A k \in 1 .. Len(trace) :
        trace[k].op = "start" =>
            (trace[k].genesis <=> trace[k].name = NodeName(0))

\* One start has issued the action of ordinal 0 with genesis and the action
\* of ordinal 1 without.
C3_Witness ==
    /\ \E k \in 1 .. Len(trace) :
          /\ trace[k].op = "start"
          /\ trace[k].name = NodeName(0)
          /\ trace[k].genesis
    /\ \E k \in 1 .. Len(trace) :
          /\ trace[k].op = "start"
          /\ trace[k].name = NodeName(1)
          /\ ~trace[k].genesis

\* C4: Fresh epoch reset. After start(n), a successful stop of all nodes and
\* a successful start(m) with m < n, the persisted Nodes mapping holds
\* records for the ordinals 0 .. m-1 only.
C4_FreshEpochReset ==
    (/\ pc = "done"
     /\ args.cmd = "start"
     /\ result = Ok
     /\ prev.kind = "stop_all_ok"
     /\ args.count < prev.count)
    => DOMAIN state_file[1].Nodes = {NodeName(n) : n \in 0 .. (args.count - 1)}

\* C5: Backend lock. A start that begins while the persisted document has
\* State Running and a Manage value, and that requests a different backend,
\* ends at once with the conflict error, with no call made and with the
\* file and the driver as they were.
C5_BackendLock ==
    [][(/\ pc = "idle"
        /\ args'.cmd = "start"
        /\ state_file # <<>>
        /\ state_file[1].State = "Running"
        /\ state_file[1].Manage \in {"docker", "daemon"}
        /\ args'.manage # None
        /\ args'.manage # state_file[1].Manage)
       => (/\ pc' = "done"
           /\ result' = CliException("Cannot use two different Manage types")
           /\ trace' = <<>>
           /\ state_file' = state_file
           /\ known' = known
           /\ running' = running)]_vars

\* A start has ended with the conflict error on a Running document that
\* records the other backend.
C5_Witness ==
    /\ pc = "done"
    /\ args.cmd = "start"
    /\ result = CliException("Cannot use two different Manage types")
    /\ state_file # <<>>
    /\ state_file[1].State = "Running"
    /\ state_file[1].Manage = "docker"
    /\ args.manage = "daemon"
    /\ DOMAIN state_file[1].Nodes # {}

\* C6: Stop fan-out isolation. When the stop action of one target name has
\* failed and the stop command has ended, every name of the target list has
\* received its stop action.
C6_StopFanOutIsolation ==
    (/\ pc = "done"
     /\ args.cmd = "stop"
     /\ \E k \in 1 .. Len(trace) : trace[k].op = "stop_raise")
    => \A n \in Range(node_names) : n \in Range(ActedNames)

\* C7: Target-set resolution. The names stop and status act on are, in
\* order, those of the explicit list when one is given, and otherwise those
\* the driver lists as known: never more, and all of them when the command
\* succeeds.
C7_TargetSetResolution ==
    LET expected == IF Len(args.node_names) > 0 THEN args.node_names
                    ELSE GetNodeNames
    IN args.cmd \in {"stop", "status"} =>
          /\ Len(ActedNames) <= Len(expected)
          /\ ActedNames = SubSeq(expected, 1, Len(ActedNames))
          /\ (pc = "done" /\ result = Ok) => ActedNames = expected

\* A stop without names has succeeded on the driver's names while the
\* persisted record names other nodes.
C7_Witness ==
    /\ pc = "done"
    /\ result = Ok
    /\ args.cmd = "stop"
    /\ Len(args.node_names) = 0
    /\ ActedNames # <<>>
    /\ Range(ActedNames) = known
    /\ state_file # <<>>
    /\ DOMAIN state_file[1].Nodes # known
    /\ DOMAIN state_file[1].Nodes # {}

\* C8: A stop without a state document ends at once with the user-facing
\* error, with no stop action and no driver call.
C8_StopWithoutDocument ==
    (args.cmd = "stop" /\ state_file = <<>>)
    => /\ pc = "done"
       /\ result = CliException("IOError")
       /\ trace = <<>>
       /\ controller = "none"

\* A stop has ended without a document while the driver knows running nodes.
C8_Witness ==
    /\ pc = "done"
    /\ args.cmd = "stop"
    /\ state_file = <<>>
    /\ running # {}
    /\ result.status = "CliException"

\* C9: Forward compatibility. A start or a stop whose document has no
\* Manage key builds a controller for a default backend.
C9_ForwardCompatibility ==
    (/\ args.cmd \in {"start", "stop"}
     /\ state_file # <<>>
     /\ state_file[1].Manage = NoKey)
    => /\ controller \in {"DockerNodeController", "DaemonNodeController"}
       /\ result.status # "KeyError"

\* C10: After a successful start(count) the persisted Nodes mapping holds
\* the record {Status Running, Index n} for every ordinal n in 0 .. count-1.
C10_EveryOrdinalRecorded ==
    (pc = "done" /\ args.cmd = "start" /\ result = Ok)
    => \A n \in 0 .. (args.count - 1) :
          /\ NodeName(n) \in DOMAIN state_file[1].Nodes
          /\ state_file[1].Nodes[NodeName(n)] =
                [Status |-> "Running", Index |-> n]

\* C11: A stop command that has issued its stop actions and succeeded has
\* then called the settle step and then written the state document, in
\* that order: its last two calls are update and save.
C11_StopSettlesThenPersists ==
    (pc = "done" /\ args.cmd = "stop" /\ result = Ok /\ ActedNames # <<>>)
    => /\ Len(trace) >= 2
       /\ trace[Len(trace)].op = "save"
       /\ trace[Len(trace) - 1].op = "update"
       /\ \A k \in 1 .. Len(trace) : trace[k].op = "stop" => k < Len(trace) - 1

\* C12: Status never changes the persisted state and never issues a start
\* or stop action: in every step of a status command the state document and
\* the driver's nodes stay as they are, and its calls are queries only.
C12_StatusReadOnly ==
    [][(args.cmd = "status" \/ args'.cmd = "status")
       => /\ state_file' = state_file
          /\ known' = known
          /\ running' = running
          /\ \A k \in 1 .. Len(trace') :
                trace'[k].op \in {"get_node_names", "status"}]_vars

\* A status of two or more nodes has completed while a document exists.
C12_Witness ==
    /\ pc = "done"
    /\ args.cmd = "status"
    /\ result = Ok
    /\ Len(ActedNames) >= 2
    /\ state_file # <<>>

\* C13: In start the state is written before the settle step is called;
\* when settle fails the command ends with the user-facing error, the
\* document written before settle is still there (State Running, a record
\* for every node started), and no stop action has undone a start action.
C13_SettleFailureKeepsState ==
    /\ (args.cmd = "start" =>
          \A k \in 1 .. Len(trace) :
              trace[k].op = "update" => (k > 1 /\ trace[k - 1].op = "save"))
    /\ (/\ pc = "done"
        /\ args.cmd = "start"
        /\ Len(trace) > 0
        /\ trace[Len(trace)].op = "update"
        /\ result # Ok)
       => /\ result = CliException("ManagementError")
          /\ state_file = <<state>>
          /\ state_file[1].State = "Running"
          /\ \A n \in StartedNames :
                /\ n \in DOMAIN state_file[1].Nodes
                /\ state_file[1].Nodes[n].Status = "Running"
                /\ n \in running
          /\ \A k \in 1 .. Len(trace) : trace[k].op # "stop"

\* The settle step of a start has failed after nodes were started over an
\* older document.
C13_Witness ==
    /\ pc = "done"
    /\ args.cmd = "start"
    /\ result = CliException("ManagementError")
    /\ Len(trace) > 0
    /\ trace[Len(trace)].op = "update"
    /\ Cardinality(StartedNames) >= 2
    /\ state_file = <<state>>

\* C14: When the driver fails while listing the known node names in start,
\* the command ends with the user-facing error having made no other call
\* (no start action, no settle), and neither the steps before the listing
\* nor the failure change the state document or the driver.
C14_ListFailureLeavesState ==
    [][((pc = "idle" /\ pc' = "start_list") \/ (pc = "start_list" /\ pc' = "done"))
       => /\ state_file' = state_file
          /\ known' = known
          /\ running' = running
          /\ (pc' = "done" =>
                /\ result' = CliException("ManagementError")
                /\ trace' = <<[op |-> "get_node_names"]>>)]_vars

\* The listing of a start has failed over a Stopped document with records:
\* the local dict is Running and cleared, the document is as it was.
C14_Witness ==
    /\ pc = "done"
    /\ args.cmd = "start"
    /\ result = CliException("ManagementError")
    /\ trace = <<[op |-> "get_node_names"]>>
    /\ state_file # <<>>
    /\ state_file[1].State = "Stopped"
    /\ DOMAIN state_file[1].Nodes # {}
    /\ state.State = "Running"
    /\ DOMAIN state.Nodes = {}

\* C15: Status per-name failure isolation. When the status query of one
\* requested name has failed and the status command has ended, every
\* requested name has been queried.
C15_StatusFailureIsolation ==
    (/\ pc = "done"
     /\ args.cmd = "status"
     /\ \E k \in 1 .. Len(trace) :
           trace[k].op = "status" /\ trace[k].value = "raise")
    => \A n \in Range(node_names) : n \in Range(ActedNames)

\* The ordinals below count the driver did not report as known and running.
NotReportedRunning ==
    {NodeName(n) : n \in {m \in 0 .. (args.count - 1) :
                             ~KnownAndRunning(NodeName(m))}}

\* C16: Recovery after interruption. When start(count) follows a
\* start(count) that was killed, then once its loop is over it has issued
\* start actions exactly for the ordinals in 0 .. count-1 the driver did not
\* report as known and running, and every ordinal 0 .. count-1 is running.
C16_RecoveryAfterKill ==
    (/\ args.cmd = "start"
     /\ prev.kind = "start_killed"
     /\ prev.count = args.count
     /\ \E k \in 1 .. Len(trace) : trace[k].op = "save")
    => /\ StartedNames = NotReportedRunning
       /\ \A n \in 0 .. (args.count - 1) : NodeName(n) \in running

\* A start after a killed start of the same count has succeeded: it skipped
\* a running node that no document records (started before the kill, never
\* persisted) and started another.
C16_Witness ==
    /\ pc = "done"
    /\ args.cmd = "start"
    /\ result = Ok
    /\ prev.kind = "start_killed"
    /\ prev.count = args.count
    /\ StartedNames # {}
    /\ \E n \in 0 .. (args.count - 1) :
          /\ KnownAndRunning(NodeName(n))
          /\ NodeName(n) \notin DOMAIN state_file[1].Nodes

\* The ordinal a node name was made from.
OrdinalOf(node_name) == CHOOSE n \in Ordinals : NodeName(n) = node_name

\* C17: Within one start invocation the start actions are issued in
\* strictly ascending ordinal order; the action of ordinal 0, when there is
\* one, comes before the action of every ordinal >= 1.
C17_AscendingStartOrder ==
    \A j, k \in 1 .. Len(trace) :
        (j < k /\ trace[j].op = "start" /\ trace[k].op = "start")
        => OrdinalOf(trace[j].name) < OrdinalOf(trace[k].name)

\* A start has issued the action of ordinal 0 and then that of ordinal 1.
C17_Witness ==
    \E j, k \in 1 .. Len(trace) :
        /\ j < k
        /\ trace[j].op = "start"
        /\ trace[k].op = "start"
        /\ trace[j].name = NodeName(0)
        /\ trace[k].name = NodeName(1)

\* C18: Stop does not reset the lifecycle. Once the state document holds
\* State Running, no step of any start, stop or status command makes it hold
\* anything else or removes it.
C18_LifecycleStaysRunning ==
    [][(state_file # <<>> /\ state_file[1].State = "Running")
       => (state_file' # <<>> /\ state_file'[1].State = "Running")]_vars

\* A stop of all nodes has succeeded after a successful start, no node is
\* running any more, and the document still holds State Running.
C18_Witness ==
    /\ pc = "done"
    /\ args.cmd = "stop"
    /\ result = Ok
    /\ prev.kind = "start_ok"
    /\ Len(args.node_names) = 0
    /\ ActedNames # <<>>
    /\ running = {}
    /\ state_file # <<>>
    /\ state_file[1].State = "Running"

\* C19: Once a backend is recorded in the state document no command changes
\* it. Whenever the document is written it holds the backend it held before
\* (also when another one was requested and the State was Stopped), and the
\* controller in use is the one of that backend; only a document without a
\* backend gets the requested one, or docker when none is requested.
C19_RecordedBackendKept ==
    [][/\ (state_file # <<>> /\ state_file[1].Manage # NoKey)
          => (state_file' # <<>> /\ state_file'[1].Manage = state_file[1].Manage)
       /\ (state_file' # state_file)
          => /\ controller = StartController(state_file'[1].Manage)
             /\ (state_file = <<>> \/ state_file[1].Manage = NoKey)
                => state_file'[1].Manage =
                      (IF args.manage # None THEN args.manage ELSE "docker")]_vars

\* A start that requested daemon over a Stopped document recording docker
\* has started a node through the docker controller.
C19_Witness ==
    /\ args.cmd = "start"
    /\ args.manage = "daemon"
    /\ state_file # <<>>
    /\ state_file[1].State = "Stopped"
    /\ state_file[1].Manage = "docker"
    /\ controller = "DockerNodeController"
    /\ state.Manage = "docker"
    /\ StartedNames # {}

\* C20: Start never scales down. No step of a start command stops or
\* removes a node at the driver or makes a stop call; and when the document
\* holds State Running, a start keeps every record of it, unchanged for the
\* nodes it did not start, so the mapping only grows.
C20_StartNeverScalesDown ==
    [][(args.cmd = "start" \/ args'.cmd = "start")
       => /\ running \subseteq running'
          /\ known \subseteq known'
          /\ \A k \in 1 .. Len(trace') : trace'[k].op \notin {"stop", "stop_raise"}
          /\ (state_file # <<>> /\ state_file[1].State = "Running")
             => /\ state_file' # <<>>
                /\ \A n \in DOMAIN state_file[1].Nodes :
                      /\ n \in DOMAIN state_file'[1].Nodes
                      /\ n \notin {trace'[k].name :
                                      k \in {j \in 1 .. Len(trace') :
                                                trace'[j].op = "start"}}
                         => state_file'[1].Nodes[n] = state_file[1].Nodes[n]]_vars

\* A start of count nodes has succeeded on a Running document and the node
\* of ordinal count is still recorded and still running.
C20_Witness ==
    /\ pc = "done"
    /\ args.cmd = "start"
    /\ result = Ok
    /\ prev.kind = "start_ok"
    /\ prev.count > args.count
    /\ NodeName(args.count) \in DOMAIN state_file[1].Nodes
    /\ state_file[1].Nodes[NodeName(args.count)] =
          [Status |-> "Running", Index |-> args.count]
    /\ NodeName(args.count) \in running

====
